---------------------------- MODULE Spec2Model ----------------------------
(***************************************************************************)
(* Model of src/app.py: a Bottle endpoint that answers nginx's auth        *)
(* sub-requests by checking HTTP Basic credentials against the `user`      *)
(* table of a Gitea SQLite3 database.                                      *)
(*                                                                         *)
(* Strings are sequences of one-character strings.  None is the empty      *)
(* sequence and a fetched row r is <<r>>.                                   *)
(***************************************************************************)
EXTENDS Integers, Sequences, FiniteSets, TLC

(* ------------------------------ bounds -------------------------------- *)

\* longest identifier a request carries
MaxLen == 3
\* most rows the user table holds
MaxRows == 2
\* most check_pass calls in flight at once (SpecSteps)
MaxCalls == 2
\* longest whitespace padding tried on either side of an identifier
MaxPad == 2

(* --------------------------- program constants ------------------------ *)

\* hashlib.pbkdf2_hmac(..., 10000, 50)
Iterations == 10000
DkLen == 50

(* ------------------------------ strings ------------------------------- *)

Whitespace == {" "}
Chars == {"a", "A", "b"} \cup Whitespace

BoundedSeq(S, n) == UNION {[1..k -> S] : k \in 0..n}

\* the lower-casing the store applies to name to get lower_name
LowerChar(ch) == IF ch = "A" THEN "a" ELSE ch
ToLower(s) == [i \in 1..Len(s) |-> LowerChar(s[i])]

RECURSIVE lstrip(_)
lstrip(s) ==
    IF s = <<>> THEN s
    ELSE IF Head(s) \in Whitespace THEN lstrip(Tail(s)) ELSE s

RECURSIVE rstrip(_)
rstrip(s) ==
    IF s = <<>> THEN s
    ELSE IF s[Len(s)] \in Whitespace THEN rstrip(SubSeq(s, 1, Len(s) - 1)) ELSE s

\* variant: only the leading whitespace is removed (str.lstrip)
strip_leading_only(s) == lstrip(s)

\* str.strip(): leading, then trailing whitespace removed
strip(s) == rstrip(lstrip(s))

\* bytes(s, encoding='utf-8') on the model's characters
CodePoint(ch) ==
    CASE ch = "a" -> 97
      [] ch = "A" -> 65
      [] ch = "b" -> 98
      [] ch = " " -> 32
utf8(s) == [i \in 1..Len(s) |-> CodePoint(s[i])]

(* --------------------------- hashing ---------------------------------- *)

RECURSIVE Absorb(_, _)
Absorb(bytes, h) ==
    IF bytes = <<>> THEN h
    ELSE Absorb(Tail(bytes), (h * 33 + Head(bytes)) % 4093)

\* hashlib.pbkdf2_hmac('sha256', password, salt, iterations, dklen): a
\* deterministic stand-in for the library's derivation.  It keeps what the
\* program relies on: the key is dklen bytes long and is a function of the
\* password bytes, the salt bytes and the iteration count.
pbkdf2_hmac(password, salt, iterations, dklen) ==
    LET p == Absorb(password, 5381)
        s == Absorb(salt, 5381)
    IN  [i \in 1..dklen |->
            (p * 31 + s * 17 + p * s + i * (1 + (iterations % 251))) % 256]

HexDigits == <<"0", "1", "2", "3", "4", "5", "6", "7",
               "8", "9", "a", "b", "c", "d", "e", "f">>

\* binascii.hexlify(data).decode('ascii'): two lowercase digits per byte
hexlify(data) ==
    [i \in 1..(2 * Len(data)) |->
        LET b == data[(i + 1) \div 2]
        IN  IF i % 2 = 1 THEN HexDigits[(b \div 16) + 1]
                         ELSE HexDigits[(b % 16) + 1]]

\* the hex string check_gitea_pbkdf2 computes for a candidate and a salt
DerivedHex(passwd, salt) ==
    hexlify(pbkdf2_hmac(utf8(passwd), utf8(salt), Iterations, DkLen))

(* ------------------------- the user table ----------------------------- *)

Passwords == {<<"a">>, <<"a", " ">>}

HexUpperChar(ch) ==
    CASE ch = "a" -> "A" [] ch = "b" -> "B" [] ch = "c" -> "C"
      [] ch = "d" -> "D" [] ch = "e" -> "E" [] ch = "f" -> "F"
      [] OTHER -> ch
HexUpper(s) == [i \in 1..Len(s) |-> HexUpperChar(s[i])]

\* A row of Gitea's user table, with the columns check_pass reads.  The
\* store keeps lower_name as the lower-cased name and passwd as the hex of
\* the key derived from the account's password and salt.
UserRow(name, email, active, type, prohibit, algo, passwd, salt) ==
    [lower_name |-> ToLower(name), name |-> name, email |-> email,
     is_active |-> active, type |-> type, prohibit_login |-> prohibit,
     passwd_hash_algo |-> algo, passwd |-> passwd, salt |-> salt]

Alice(active, type, prohibit, algo, passwd) ==
    UserRow(<<"a", "A">>, <<"a", "b">>, active, type, prohibit, algo, passwd,
            <<"a">>)

AliceHex == DerivedHex(<<"a">>, <<"a">>)
AliceOtherHex == DerivedHex(<<"a", " ">>, <<"a">>)
BobHex == DerivedHex(<<"a", " ">>, <<"b">>)

\* The rows a table is built from: an eligible pbkdf2 account, the same
\* account with one column changed (inactive, an organization, login
\* prohibited, another algorithm tag, another password, an upper-case
\* hash), and a second account.
Rows ==
    { Alice(1, 0, 0, "pbkdf2", AliceHex),
      Alice(0, 0, 0, "pbkdf2", AliceHex),
      Alice(1, 1, 0, "pbkdf2", AliceHex),
      Alice(1, 0, 1, "pbkdf2", AliceHex),
      Alice(1, 0, 0, "argon2", AliceHex),
      Alice(1, 0, 0, "pbkdf2", AliceOtherHex),
      Alice(1, 0, 0, "pbkdf2", HexUpper(AliceHex)),
      UserRow(<<"b">>, <<"b", "a">>, 1, 0, 0, "pbkdf2", BobHex, <<"b">>) }

\* the table in the order the store returns its rows
Stores == BoundedSeq(Rows, MaxRows)

Identifiers == BoundedSeq(Chars, MaxLen)

(* ------------------------------- state -------------------------------- *)

VARIABLES
    store,      \* the rows of the user table, in the order a SELECT yields them
    calls,      \* per request: where it stands and check_pass's locals
    cursors     \* the cursor objects made from the one shared connection

vars == <<store, calls, cursors>>

Calls == 1..MaxCalls

None == <<>>

NoResponse == [status |-> 0, body |-> "", challenge |-> FALSE]

\* a request slot before its request arrives
IdleCall ==
    [pc |-> "idle", username |-> <<>>, passwd |-> <<>>, cursor |-> 0,
     result |-> None, ret |-> "unset", exc |-> FALSE, hashed |-> FALSE,
     viewed |-> FALSE, response |-> NoResponse]

NoCursor == [state |-> "none", rows |-> <<>>]

\* what the actions read and write: the request slots and the cursors
Machine == [calls |-> calls, cursors |-> cursors]

(* ------------------------------ the query ----------------------------- *)

\* variant: the WHERE clause without its is_active = 1 condition
MatchesInactiveToo(row, un) ==
    /\ (row.lower_name = un \/ row.name = un \/ row.email = un)
    /\ row.type = 0
    /\ row.prohibit_login = 0

\* WHERE (lower_name = :un OR name = :un OR email = :un)
\*   AND is_active = 1 AND type = 0 AND prohibit_login = 0
Matches(row, un) ==
    /\ (row.lower_name = un \/ row.name = un \/ row.email = un)
    /\ row.is_active = 1
    /\ row.type = 0
    /\ row.prohibit_login = 0

\* SELECT * FROM user WHERE ...: the matching rows, in table order
Select(table, un) ==
    LET Test(row) == Matches(row, un)
    IN  SelectSeq(table, Test)

\* variant: the last matching row is the one handed back
fetchlast(rows) == IF rows = <<>> THEN None ELSE <<rows[Len(rows)]>>

\* cursor.fetchone(): the next row of the result set, or None
fetchone(rows) == IF rows = <<>> THEN None ELSE <<Head(rows)>>

(* --------------------------- check_gitea_pbkdf2 ----------------------- *)

\* variant: the hex strings are compared without regard to case
check_gitea_pbkdf2_nocase(passwd, row) ==
    HexUpper(hexlify(pbkdf2_hmac(utf8(passwd), utf8(row.salt), Iterations, DkLen)))
        = HexUpper(row.passwd)

check_gitea_pbkdf2(passwd, row) ==
    hexlify(pbkdf2_hmac(utf8(passwd), utf8(row.salt), Iterations, DkLen))
        = row.passwd

(* ------------------------- the steps of a request --------------------- *)

\* variant: one cursor, made once, serves every call
SharedCursor(c) == 1

\* connection.cursor() hands each call a cursor object of its own
NewCursor(c) == c

\* bottle.auth_basic decodes the credentials and calls
\* auth_partial(un, pw), that is check_pass(connection, un, pw)
Begin(m, c, un, pw) ==
    [m EXCEPT !.calls[c] =
        [IdleCall EXCEPT !.pc = "cursor", !.username = un, !.passwd = pw]]

\* cursor = connection.cursor()
OpenCursor(m, c) ==
    LET k == NewCursor(c)
    IN  [m EXCEPT !.calls[c].cursor = k,
                  !.calls[c].pc = "execute",
                  !.cursors[k] = [state |-> "open", rows |-> <<>>]]

\* cursor.execute(..., {"un": username.strip()})
Execute(m, c, table) ==
    LET k == m.calls[c].cursor
    IN  [m EXCEPT !.cursors[k].rows = Select(table, strip(m.calls[c].username)),
                  !.calls[c].pc = "fetch"]

\* cursor.execute raises: control leaves the try block for finally
ExecuteRaises(m, c) ==
    [m EXCEPT !.calls[c].exc = TRUE, !.calls[c].pc = "finally"]

\* result = cursor.fetchone()
Fetchone(m, c) ==
    LET k == m.calls[c].cursor
        rows == m.cursors[k].rows
    IN  [m EXCEPT !.calls[c].result = fetchone(rows),
                  !.cursors[k].rows = IF rows = <<>> THEN rows ELSE Tail(rows),
                  !.calls[c].pc = "decide"]

\* cursor.fetchone raises
FetchoneRaises(m, c) ==
    [m EXCEPT !.calls[c].exc = TRUE, !.calls[c].pc = "finally"]

\* variant: every found record is hashed, whatever its algorithm tag
DecideAnyAlgo(m, c) ==
    LET result == m.calls[c].result
        passwd == m.calls[c].passwd
    IN  IF result # None
        THEN [m EXCEPT !.calls[c].hashed = TRUE,
                       !.calls[c].ret =
                           IF hexlify(pbkdf2_hmac(utf8(passwd),
                                  utf8(result[1].salt), Iterations, DkLen))
                                  = result[1].passwd
                           THEN "True" ELSE "False",
                       !.calls[c].pc = "finally"]
        ELSE [m EXCEPT !.calls[c].ret = "False", !.calls[c].pc = "finally"]

\* variant: an unknown algorithm tag is raised as an error
DecideRaisesOnUnknownAlgo(m, c) ==
    LET result == m.calls[c].result
        passwd == m.calls[c].passwd
    IN  IF result # None
        THEN IF result[1].passwd_hash_algo = "pbkdf2"
             THEN [m EXCEPT !.calls[c].hashed = TRUE,
                            !.calls[c].ret =
                                IF hexlify(pbkdf2_hmac(utf8(passwd),
                                       utf8(result[1].salt), Iterations, DkLen))
                                       = result[1].passwd
                                THEN "True" ELSE "False",
                            !.calls[c].pc = "finally"]
             ELSE [m EXCEPT !.calls[c].exc = TRUE, !.calls[c].pc = "finally"]
        ELSE [m EXCEPT !.calls[c].ret = "False", !.calls[c].pc = "finally"]

\* if result: ... else: return False
Decide(m, c) ==
    LET result == m.calls[c].result
        passwd == m.calls[c].passwd
    IN  IF result # None
        THEN IF result[1].passwd_hash_algo = "pbkdf2"
             THEN [m EXCEPT !.calls[c].hashed = TRUE,
                            !.calls[c].ret =
                                IF check_gitea_pbkdf2(passwd, result[1])
                                THEN "True" ELSE "False",
                            !.calls[c].pc = "finally"]
             ELSE [m EXCEPT !.calls[c].ret = "False",
                            !.calls[c].pc = "finally"]
        ELSE [m EXCEPT !.calls[c].ret = "False", !.calls[c].pc = "finally"]

\* variant: the cursor is closed at the end of the try block, not in finally
FinallyOnSuccessOnly(m, c) ==
    LET k == m.calls[c].cursor
    IN  IF m.calls[c].exc
        THEN [m EXCEPT !.calls[c].pc = "respond"]
        ELSE [m EXCEPT !.cursors[k].state = "closed",
                       !.calls[c].pc = "respond"]

\* finally: cursor.close()
Finally(m, c) ==
    LET k == m.calls[c].cursor
    IN  [m EXCEPT !.cursors[k].state = "closed",
                  !.calls[c].pc = "respond"]

(* ------------------------------ the router ---------------------------- *)

\* variant: the view answers with another status and an empty body
auth_view_no_content == [status |-> 204, body |-> "", challenge |-> FALSE]

\* return bottle.HTTPResponse(status=200, body="success")
auth_view == [status |-> 200, body |-> "success", challenge |-> FALSE]

\* the 401 challenge of Basic authentication
Unauthorized == [status |-> 401, body |-> "Access denied", challenge |-> TRUE]

\* the request-level failure an uncaught error ends in
InternalServerError ==
    [status |-> 500, body |-> "Internal Server Error", challenge |-> FALSE]

\* @bottle.auth_basic(auth_partial) around auth_view
Respond(m, c) ==
    LET call == m.calls[c]
    IN  IF call.exc
        THEN [m EXCEPT !.calls[c].response = InternalServerError,
                       !.calls[c].pc = "done"]
        ELSE IF call.ret = "True"
        THEN [m EXCEPT !.calls[c].response = auth_view,
                       !.calls[c].viewed = TRUE,
                       !.calls[c].pc = "done"]
        ELSE [m EXCEPT !.calls[c].response = Unauthorized,
                       !.calls[c].pc = "done"]

(* ----------------------- check_pass as a function --------------------- *)

\* the value check_pass returns when the store answers the query
check_pass(table, username, passwd) ==
    LET result == fetchone(Select(table, strip(username)))
    IN  IF result # None
        THEN IF result[1].passwd_hash_algo = "pbkdf2"
             THEN IF check_gitea_pbkdf2(passwd, result[1])
                  THEN "True" ELSE "False"
             ELSE "False"
        ELSE "False"

(* ------------------- one request at a time (Spec) --------------------- *)

Apply(m) ==
    /\ calls' = m.calls
    /\ cursors' = m.cursors
    /\ UNCHANGED store

Init ==
    /\ store \in Stores
    /\ calls = [c \in Calls |-> IdleCall]
    /\ cursors = [k \in Calls |-> NoCursor]

\* a request to /auth, handled to its response; the store answers
AuthRequest(c, un, pw) ==
    /\ calls[c].pc = "idle"
    /\ Apply(Respond(Finally(Decide(Fetchone(Execute(
           OpenCursor(Begin(Machine, c, un, pw), c), c, store), c), c), c), c))

\* a request to /auth during which cursor.execute fails
AuthRequestExecuteFails(c, un, pw) ==
    /\ calls[c].pc = "idle"
    /\ Apply(Respond(Finally(ExecuteRaises(
           OpenCursor(Begin(Machine, c, un, pw), c), c), c), c))

\* a request to /auth during which cursor.fetchone fails
AuthRequestFetchFails(c, un, pw) ==
    /\ calls[c].pc = "idle"
    /\ Apply(Respond(Finally(FetchoneRaises(Execute(
           OpenCursor(Begin(Machine, c, un, pw), c), c, store), c), c), c))

\* the server takes one request, with any credentials, and handles it
Next ==
    /\ calls[1].pc = "idle"
    /\ \E un \in Identifiers, pw \in Passwords :
          \/ AuthRequest(1, un, pw)
          \/ AuthRequestExecuteFails(1, un, pw)
          \/ AuthRequestFetchFails(1, un, pw)

Spec == Init /\ [][Next]_vars

(* --------------- requests in flight together (SpecSteps) -------------- *)

\* the tables, identifiers and passwords the interleaved requests use
StepStores ==
    BoundedSeq({ Alice(1, 0, 0, "pbkdf2", AliceHex),
                 UserRow(<<"b">>, <<"b", "a">>, 1, 0, 0, "pbkdf2", BobHex,
                         <<"b">>) }, MaxRows)
StepIdentifiers == {<<"a", "A">>, <<" ", "b">>}
StepPasswords == {<<"a">>}

InitSteps ==
    /\ store \in StepStores
    /\ calls = [c \in Calls |-> IdleCall]
    /\ cursors = [k \in Calls |-> NoCursor]

\* a request arrives in a slot that holds no request in flight
BeginStep(c, un, pw) ==
    /\ calls[c].pc \in {"idle", "done"}
    /\ Apply(Begin(Machine, c, un, pw))

OpenCursorStep(c) ==
    /\ calls[c].pc = "cursor"
    /\ Apply(OpenCursor(Machine, c))

ExecuteStep(c) ==
    /\ calls[c].pc = "execute"
    /\ Apply(Execute(Machine, c, store))

ExecuteRaisesStep(c) ==
    /\ calls[c].pc = "execute"
    /\ Apply(ExecuteRaises(Machine, c))

FetchoneStep(c) ==
    /\ calls[c].pc = "fetch"
    /\ Apply(Fetchone(Machine, c))

FetchoneRaisesStep(c) ==
    /\ calls[c].pc = "fetch"
    /\ Apply(FetchoneRaises(Machine, c))

DecideStep(c) ==
    /\ calls[c].pc = "decide"
    /\ Apply(Decide(Machine, c))

FinallyStep(c) ==
    /\ calls[c].pc = "finally"
    /\ Apply(Finally(Machine, c))

RespondStep(c) ==
    /\ calls[c].pc = "respond"
    /\ Apply(Respond(Machine, c))

NextSteps ==
    \E c \in Calls :
        \/ \E un \in StepIdentifiers, pw \in StepPasswords : BeginStep(c, un, pw)
        \/ OpenCursorStep(c)
        \/ ExecuteStep(c)
        \/ ExecuteRaisesStep(c)
        \/ FetchoneStep(c)
        \/ FetchoneRaisesStep(c)
        \/ DecideStep(c)
        \/ FinallyStep(c)
        \/ RespondStep(c)

SpecSteps == InitSteps /\ [][NextSteps]_vars

(* ------------------------------ properties ---------------------------- *)

Finished(c) == calls[c].pc = "done"

\* the request ended and the store answered its query
Answered(c) == Finished(c) /\ ~calls[c].exc

RowsOf(table) == {table[i] : i \in 1..Len(table)}

IsEligible(row) ==
    row.is_active = 1 /\ row.type = 0 /\ row.prohibit_login = 0

Identifies(row, un) ==
    row.lower_name = un \/ row.name = un \/ row.email = un

\* the candidate is the password the row's hash was derived from
IsPasswordOf(passwd, row) == DerivedHex(passwd, row.salt) = row.passwd

Pads == BoundedSeq(Whitespace, MaxPad)

\* C1: when the fetched record's passwd_hash_algo is "pbkdf2", check_pass
\* returns True exactly when the lowercase hex of the key derived from the
\* candidate and the record's salt equals the stored passwd; otherwise it
\* returns False, and it does not raise.
C1_HashDecides ==
    \A c \in Calls :
        LET call == calls[c]
        IN  (Finished(c) /\ call.result # None
                /\ call.result[1].passwd_hash_algo = "pbkdf2")
            => /\ ~call.exc
               /\ call.ret \in {"True", "False"}
               /\ (call.ret = "True")
                      <=> (DerivedHex(call.passwd, call.result[1].salt)
                               = call.result[1].passwd)

\* a wrong password on a pbkdf2 record that another candidate would open
C1_Witness ==
    \E c \in Calls :
        /\ Finished(c) /\ calls[c].result # None
        /\ calls[c].result[1].passwd_hash_algo = "pbkdf2"
        /\ ~IsPasswordOf(calls[c].passwd, calls[c].result[1])
        /\ \E pw \in Passwords : IsPasswordOf(pw, calls[c].result[1])
        /\ calls[c].hashed
        /\ calls[c].ret = "False"

\* C2: if no row both matches the (stripped) identifier and has
\* is_active = 1, type = 0 and prohibit_login = 0, check_pass returns False;
\* True is only ever returned on a row of the table that is eligible.
C2_IneligibleRejected ==
    \A c \in Calls :
        LET call == calls[c]
            un == strip(call.username)
        IN  Answered(c)
            => /\ (~\E row \in RowsOf(store) :
                        Identifies(row, un) /\ IsEligible(row))
                   => call.ret = "False"
               /\ call.ret = "True"
                   => /\ call.result # None
                      /\ call.result[1] \in RowsOf(store)
                      /\ IsEligible(call.result[1])
                      /\ Identifies(call.result[1], un)

\* the right password of an account that is inactive, an organization or
\* login-prohibited, and no eligible row to fall back on
C2_Witness ==
    \E c \in Calls :
        /\ Answered(c)
        /\ \E row \in RowsOf(store) :
              /\ Identifies(row, strip(calls[c].username))
              /\ ~IsEligible(row)
              /\ row.passwd_hash_algo = "pbkdf2"
              /\ IsPasswordOf(calls[c].passwd, row)
        /\ ~\E row \in RowsOf(store) :
              Identifies(row, strip(calls[c].username)) /\ IsEligible(row)
        /\ calls[c].ret = "False"

\* C3: a fetched record whose passwd_hash_algo is not "pbkdf2" makes
\* check_pass return False whatever the candidate is, with no hash computed
\* and nothing raised.
C3_UnknownAlgoFailsClosed ==
    \A c \in Calls :
        LET call == calls[c]
        IN  (Finished(c) /\ call.result # None
                /\ call.result[1].passwd_hash_algo # "pbkdf2")
            => /\ call.ret = "False"
               /\ ~call.hashed
               /\ ~call.exc

\* the account's own password against a record tagged with another algorithm
C3_Witness ==
    \E c \in Calls :
        /\ Finished(c) /\ calls[c].result # None
        /\ calls[c].result[1].passwd_hash_algo # "pbkdf2"
        /\ IsPasswordOf(calls[c].passwd, calls[c].result[1])
        /\ calls[c].ret = "False"
        /\ ~calls[c].hashed

\* C4: an identifier whose lower-casing equals an eligible record's
\* lower_name finds that record, so with the record's password check_pass
\* returns True (stated on tables of one row, where no other row can be
\* fetched first).
C4_CaseInsensitiveLookup ==
    \A c \in Calls :
        LET call == calls[c]
        IN  (Answered(c) /\ Len(store) = 1
                /\ IsEligible(store[1])
                /\ store[1].lower_name = ToLower(strip(call.username))
                /\ store[1].passwd_hash_algo = "pbkdf2"
                /\ IsPasswordOf(call.passwd, store[1]))
            => call.ret = "True"

\* C5: padding the identifier with whitespace on either side does not
\* change what check_pass returns for the same password and table; the
\* password is hashed as given, whitespace included.
C5_PaddingIgnored ==
    \A c \in Calls :
        Answered(c)
        => /\ \A l \in Pads, r \in Pads :
                check_pass(store, l \o calls[c].username \o r, calls[c].passwd)
                    = calls[c].ret
           /\ calls[c].ret = "True"
                => IsPasswordOf(calls[c].passwd, calls[c].result[1])

\* an identifier padded on both sides that authenticates
C5_Witness ==
    \E c \in Calls :
        LET un == calls[c].username
        IN  /\ Answered(c)
            /\ Len(un) >= 3
            /\ un[1] \in Whitespace
            /\ un[Len(un)] \in Whitespace
            /\ calls[c].ret = "True"

\* C6: when the store query fails, check_pass returns neither True nor
\* False: the error leaves it, and by then the call's cursor is closed.
C6_StoreErrorSurfaces ==
    \A c \in Calls :
        LET call == calls[c]
        IN  (call.exc /\ call.pc \in {"respond", "done"})
            => /\ call.ret = "unset"
               /\ call.cursor # 0
               /\ cursors[call.cursor].state = "closed"

\* the error has left check_pass and the response is not yet made
C6_Witness ==
    \E c \in Calls :
        /\ calls[c].exc
        /\ calls[c].pc = "respond"
        /\ calls[c].ret = "unset"
        /\ cursors[calls[c].cursor].state = "closed"

\* C7: the response is 200 with body "success" exactly when check_pass
\* returned True and a 401 challenge exactly when it returned False; the
\* view body runs only after True.
C7_ResponseMapping ==
    \A c \in Calls :
        LET call == calls[c]
        IN  Finished(c)
            => /\ (call.response.status = 200 /\ call.response.body = "success")
                      <=> call.ret = "True"
               /\ (call.response.status = 401 /\ call.response.challenge)
                      <=> call.ret = "False"
               /\ call.viewed <=> call.ret = "True"

\* an accepted request, answered by the view
C7_Witness ==
    \E c \in Calls :
        /\ Finished(c)
        /\ calls[c].ret = "True"
        /\ calls[c].viewed
        /\ calls[c].response.status = 200
        /\ calls[c].response.body = "success"

C9_FirstRowDecides ==
    \A c \in Calls :
        LET call == calls[c]
            found == Select(store, strip(call.username))
        IN  (Answered(c) /\ found # <<>>)
            => /\ call.result = <<found[1]>>
               /\ (call.ret = "True")
                     <=> /\ found[1].passwd_hash_algo = "pbkdf2"
                         /\ IsPasswordOf(call.passwd, found[1])

\* two rows match, the first rejects the candidate, the second would accept
C9_Witness ==
    \E c \in Calls :
        LET found == Select(store, strip(calls[c].username))
        IN  /\ Answered(c)
            /\ Len(found) >= 2
            /\ ~IsPasswordOf(calls[c].passwd, found[1])
            /\ found[2].passwd_hash_algo = "pbkdf2"
            /\ IsPasswordOf(calls[c].passwd, found[2])
            /\ calls[c].ret = "False"

\* C10: however the calls interleave, each decides on the row its own
\* query fetched and returns what it would return alone on the same table,
\* and no step changes the table.
C10_CallsIndependent ==
    /\ [](\A c \in Calls :
            LET call == calls[c]
            IN  /\ (call.pc \in {"decide", "finally", "respond", "done"}
                        /\ ~call.exc)
                    => call.result
                           = fetchone(Select(store, strip(call.username)))
                /\ Answered(c)
                    => call.ret = check_pass(store, call.username, call.passwd))
    /\ [][store' = store]_vars

\* one call has its answer while another, with other credentials and another
\* answer, is still inside check_pass
C10_Witness ==
    \E c \in Calls, d \in Calls :
        /\ c # d
        /\ Finished(c) /\ calls[c].ret = "True"
        /\ calls[d].pc = "finally" /\ calls[d].ret = "False"
        /\ calls[d].result # None
        /\ calls[c].username # calls[d].username

=============================================================================
